---------------------------- MODULE Spec2Model ----------------------------
(***************************************************************************)
(* YALL (python): the Limelight client library.                            *)
(*                                                                         *)
(* The model follows src/yall/python/yall/limelight.py and                 *)
(* src/yall/python/yall/networktables/util.py: the NetworkTables entries   *)
(* the library reads, the PoseEstimate objects BotPose caches, and the     *)
(* static array decoders of LimelightUtils.                                *)
(*                                                                         *)
(* Numbers.  A double on the wire is a fixed-point integer n standing for  *)
(* n / Scale.  int() of a double truncates towards zero and yields a plain *)
(* integer.  An angle inside a Rotation3d is in units of 1e-4 rad; a       *)
(* timestamp in seconds is held in microseconds.  A Python list is a TLA+  *)
(* sequence: Python index p is sequence index p + 1.                       *)
(***************************************************************************)
EXTENDS Integers, Sequences, FiniteSets, TLC

VARIABLES
    nt,            \* NetworkTables: camera table -> entry name -> [value, time]
    poseEstimate,  \* BotPose.<variant>.__poseEstimate: 0 (None) or a heap reference
    heap,          \* the PoseEstimate objects constructed so far
    result,        \* what the last BotPose.<variant>.get(camera) call returned
    outcome,       \* what the last static LimelightUtils / LimelightData call returned
    pc,            \* per thread: position inside BotPose.get / getPoseEstimate
    frame          \* per thread: the locals of the running call

vars == <<nt, poseEstimate, heap, result, outcome, pc, frame>>

---------------------------------------------------------------------------
(* Bounds of the model *)

\* wire resolution: a double d is the integer d * Scale
Scale == 2
\* longest array an entry holds
MaxLen == 26

---------------------------------------------------------------------------
(* Values *)

None == [none |-> TRUE]

Abs(n) == IF n < 0 THEN -n ELSE n

\* n / d rounded to the nearest integer (d > 0)
RoundDiv(n, d) ==
    IF n >= 0 THEN (2 * n + d) \div (2 * d) ELSE -((2 * (-n) + d) \div (2 * d))

\* Python list indexing inData[p] for 0 <= p < len(inData)
At(inData, p) == inData[p + 1]

\* the Python indices of a list
Indices(inData) == 0 .. (Len(inData) - 1)

\* int(x) for a double x: truncation towards zero
int(x) == IF x >= 0 THEN x \div Scale ELSE -((-x) \div Scale)

\* math.radians(x): degrees (wire resolution) to radians (1e-4 rad)
radians(x) == RoundDiv(x * 31416, 180 * Scale)

Rotation3d(roll, pitch, yaw) == [roll |-> roll, pitch |-> pitch, yaw |-> yaw]

Pose3d(x, y, z, rotation) == [x |-> x, y |-> y, z |-> z, rotation |-> rotation]

Pose2d(x, y, rotation) == [x |-> x, y |-> y, rotation |-> rotation]

Translation3d(x, y, z) == [x |-> x, y |-> y, z |-> z]

AngularVelocity3d(roll, pitch, yaw) == [roll |-> roll, pitch |-> pitch, yaw |-> yaw]

Orientation3d(orientation, angularVelocity) ==
    [orientation |-> orientation, angularVelocity |-> angularVelocity]

RawFiducial(id, txnc, tync, ta, distToCamera, distToRobot, ambiguity) ==
    [id |-> id, txnc |-> txnc, tync |-> tync, ta |-> ta,
     distToCamera |-> distToCamera, distToRobot |-> distToRobot,
     ambiguity |-> ambiguity]

RawDetection(classId, txnc, tync, ta, c0x, c0y, c1x, c1y, c2x, c2y, c3x, c3y) ==
    [class_id |-> classId, txnc |-> txnc, tync |-> tync, ta |-> ta,
     corner0_X |-> c0x, corner0_Y |-> c0y, corner1_X |-> c1x, corner1_Y |-> c1y,
     corner2_X |-> c2x, corner2_Y |-> c2y, corner3_X |-> c3x, corner3_Y |-> c3y]

\* a call that returned v, and a call that raised IndexError
Returned(v) == [raised |-> FALSE, value |-> v]
IndexError == [raised |-> TRUE, value |-> None]

---------------------------------------------------------------------------
(* LimelightUtils: the static decoders *)

toPose3dShort(inData) ==
    IF Len(inData) <= 6
    THEN Returned(None)
    ELSE Returned(Pose3d(At(inData, 0), At(inData, 1), At(inData, 2),
                         Rotation3d(radians(At(inData, 3)),
                                    radians(At(inData, 4)),
                                    radians(At(inData, 5)))))

toPose3dYawFirst(inData) ==
    IF Len(inData) < 6
    THEN Returned(None)
    ELSE Returned(Pose3d(At(inData, 0), At(inData, 1), At(inData, 2),
                         Rotation3d(radians(At(inData, 5)),
                                    radians(At(inData, 4)),
                                    radians(At(inData, 3)))))

toPose3d(inData) ==
    IF Len(inData) < 6
    THEN Returned(None)
    ELSE Returned(Pose3d(At(inData, 0), At(inData, 1), At(inData, 2),
                         Rotation3d(radians(At(inData, 3)),
                                    radians(At(inData, 4)),
                                    radians(At(inData, 5)))))

toPose2d(inData) ==
    IF Len(inData) < 6
    THEN Returned(None)
    ELSE Returned(Pose2d(At(inData, 0), At(inData, 1), radians(At(inData, 5))))

\* no length check in the code: an index past the end raises IndexError
toTranslation3d(translation) ==
    IF ~({0, 1, 2} \subseteq Indices(translation))
    THEN IndexError
    ELSE Returned(Translation3d(At(translation, 0), At(translation, 1),
                                At(translation, 2)))

\* no length check in the code: an index past the end raises IndexError
toOrientation(orientation) ==
    IF ~({0, 1, 2, 3, 4, 5} \subseteq Indices(orientation))
    THEN IndexError
    ELSE Returned(Orientation3d(
             Rotation3d(radians(At(orientation, 4)),
                        radians(At(orientation, 2)),
                        radians(At(orientation, 0))),
             AngularVelocity3d(At(orientation, 1), At(orientation, 3),
                               At(orientation, 5))))

\* extractArrayEntry with 1 as the value of an absent element
\* -- the encoders ---------------------------------------------------------

\* Rotation3d.x_degrees / y_degrees / z_degrees: an angle of a rotation
\* (1e-4 rad) in degrees, as a double at wire resolution
degrees(r) == RoundDiv(r * 180 * Scale, 31416)

\* Rotation3d.X() / Y() / Z(): an angle of a rotation in radians, as a double
\* at wire resolution
radiansOf(r) == RoundDiv(r * Scale, 10000)

\* pose3dToArray emitting radians
pose3dToArrayRadians(pose) ==
    <<pose.x, pose.y, pose.z, radiansOf(pose.rotation.roll),
      radiansOf(pose.rotation.pitch), radiansOf(pose.rotation.yaw)>>

pose3dToArray(pose) ==
    <<pose.x, pose.y, pose.z, degrees(pose.rotation.roll),
      degrees(pose.rotation.pitch), degrees(pose.rotation.yaw)>>

orientation3dToArray(orientation) ==
    <<radiansOf(orientation.orientation.yaw), orientation.angularVelocity.yaw,
      radiansOf(orientation.orientation.pitch), orientation.angularVelocity.pitch,
      radiansOf(orientation.orientation.roll), orientation.angularVelocity.roll>>

extractArrayEntryOne(inData, position) ==
    IF Len(inData) <= position THEN Scale ELSE At(inData, position)

extractArrayEntry(inData, position) ==
    IF Len(inData) <= position THEN 0 ELSE At(inData, position)


---------------------------------------------------------------------------
(* LimelightData / LimelightTargetData: decoders of whole entries *)

\* getRawFiducials without the length check: the whole records of the array
getRawFiducialsTruncating(rawFiducialArray) ==
    LET e(p) == extractArrayEntry(rawFiducialArray, p)
        rec(b) == RawFiducial(int(e(b)), e(b + 1), e(b + 2), e(b + 3), e(b + 4),
                              e(b + 5), e(b + 6))
    IN  Returned([i \in 1 .. (Len(rawFiducialArray) \div 7) |-> rec(7 * (i - 1))])

\* LimelightData.getRawFiducials on the array of the "rawfiducials" entry
getRawFiducials(rawFiducialArray) ==
    LET valsPerEntry == 7
        numFiducials == Len(rawFiducialArray) \div valsPerEntry
        rec(i) ==
            LET baseIndex == i * valsPerEntry
            IN  RawFiducial(int(extractArrayEntry(rawFiducialArray, baseIndex)),
                            extractArrayEntry(rawFiducialArray, baseIndex + 1),
                            extractArrayEntry(rawFiducialArray, baseIndex + 2),
                            extractArrayEntry(rawFiducialArray, baseIndex + 3),
                            extractArrayEntry(rawFiducialArray, baseIndex + 4),
                            extractArrayEntry(rawFiducialArray, baseIndex + 5),
                            extractArrayEntry(rawFiducialArray, baseIndex + 6))
    IN  IF Len(rawFiducialArray) % valsPerEntry # 0
        THEN Returned(<<>>)
        ELSE Returned([i \in 1 .. numFiducials |-> rec(i - 1)])

\* getRawDetections with the corners of a record read as y before x
getRawDetectionsCornersSwapped(rawDetectionArray) ==
    LET e(p) == extractArrayEntry(rawDetectionArray, p)
        rec(b) == RawDetection(int(e(b)), e(b + 1), e(b + 2), e(b + 3), e(b + 5),
                               e(b + 4), e(b + 7), e(b + 6), e(b + 9), e(b + 8),
                               e(b + 11), e(b + 10))
    IN  IF Len(rawDetectionArray) % 12 # 0
        THEN Returned(<<>>)
        ELSE Returned([i \in 1 .. (Len(rawDetectionArray) \div 12) |->
                          rec(12 * (i - 1))])

\* LimelightData.getRawDetections on the array of the "rawdetections" entry
getRawDetections(rawDetectionArray) ==
    LET valsPerEntry == 12
        numDetections == Len(rawDetectionArray) \div valsPerEntry
        rec(i) ==
            LET baseIndex == i * valsPerEntry
            IN  RawDetection(int(extractArrayEntry(rawDetectionArray, baseIndex)),
                             extractArrayEntry(rawDetectionArray, baseIndex + 1),
                             extractArrayEntry(rawDetectionArray, baseIndex + 2),
                             extractArrayEntry(rawDetectionArray, baseIndex + 3),
                             extractArrayEntry(rawDetectionArray, baseIndex + 4),
                             extractArrayEntry(rawDetectionArray, baseIndex + 5),
                             extractArrayEntry(rawDetectionArray, baseIndex + 6),
                             extractArrayEntry(rawDetectionArray, baseIndex + 7),
                             extractArrayEntry(rawDetectionArray, baseIndex + 8),
                             extractArrayEntry(rawDetectionArray, baseIndex + 9),
                             extractArrayEntry(rawDetectionArray, baseIndex + 10),
                             extractArrayEntry(rawDetectionArray, baseIndex + 11))
    IN  IF Len(rawDetectionArray) % valsPerEntry # 0
        THEN Returned(<<>>)
        ELSE Returned([i \in 1 .. numDetections |-> rec(i - 1)])

\* LimelightTargetData getters on the array of the "t2d" entry
getTargetCount(t2d) ==
    IF Len(t2d) = 17 THEN Returned(int(At(t2d, 1))) ELSE Returned(0)

getClassifierClassIndex(t2d) ==
    IF Len(t2d) = 17 THEN Returned(int(At(t2d, 10))) ELSE Returned(0)

\* getDetectorClassIndex reading the classifier's slot
getDetectorClassIndexAtTen(t2d) ==
    IF Len(t2d) = 17 THEN Returned(int(At(t2d, 10))) ELSE Returned(0)

getDetectorClassIndex(t2d) ==
    IF Len(t2d) = 17 THEN Returned(int(At(t2d, 11))) ELSE Returned(0)

---------------------------------------------------------------------------
(* PoseEstimate *)

valsPerFiducial == 7

\* PoseEstimate.__init__: rawFiducials is annotated but not assigned
NewPoseEstimate(camera, entryName, megaTag2) ==
    [pose |-> Pose3d(0, 0, 0, Rotation3d(0, 0, 0)),
     timestampSeconds |-> 0,
     latency |-> 0,
     tagCount |-> 0,
     tagSpan |-> 0,
     avgTagDist |-> 0,
     avgTagArea |-> 0,
     rawFiducialsSet |-> FALSE,
     rawFiducials |-> <<>>,
     isMegaTag2 |-> megaTag2,
     poseEntryName |-> entryName,
     poseEntryTable |-> camera,
     hasData |-> FALSE]

\* [results.RawFiducial()] * tagCount: tagCount default records, none if tagCount <= 0
placeholderFiducials(tagCount) ==
    [i \in 1 .. tagCount |-> RawFiducial(0, 0, 0, 0, 0, 0, 0)]

expectedTotalVals(tagCount) == 11 + valsPerFiducial * tagCount

\* the else branch of `if len(poseArray) != expectedTotalVals`
populatesAlways(poseArray, tagCount) == TRUE

populatesFiducials(poseArray, tagCount) ==
    Len(poseArray) = expectedTotalVals(tagCount)

baseIndexOf(i) == 11 + (i * valsPerFiducial)

\* the indices of poseArray the fiducial loop subscripts
fiducialReads(poseArray, tagCount) ==
    IF populatesFiducials(poseArray, tagCount)
    THEN {baseIndexOf(i) + k : i \in 0 .. (tagCount - 1), k \in 0 .. 6}
    ELSE {}

\* poseArray[p] where the loop has not raised
Item(poseArray, p) == IF p \in Indices(poseArray) THEN At(poseArray, p) ELSE 0

fiducialAtSwapped(poseArray, i) ==
    LET baseIndex == baseIndexOf(i)
    IN  RawFiducial(int(Item(poseArray, baseIndex)),
                    Item(poseArray, baseIndex + 1),
                    Item(poseArray, baseIndex + 2),
                    Item(poseArray, baseIndex + 3),
                    Item(poseArray, baseIndex + 5),
                    Item(poseArray, baseIndex + 4),
                    Item(poseArray, baseIndex + 6))

\* one pass of the loop body
fiducialAt(poseArray, i) ==
    LET baseIndex == baseIndexOf(i)
    IN  RawFiducial(int(Item(poseArray, baseIndex)),
                    Item(poseArray, baseIndex + 1),
                    Item(poseArray, baseIndex + 2),
                    Item(poseArray, baseIndex + 3),
                    Item(poseArray, baseIndex + 4),
                    Item(poseArray, baseIndex + 5),
                    Item(poseArray, baseIndex + 6))

\* the correction applied forwards instead of backwards
adjustedTimestampLate(timestamp, latency) ==
    timestamp + RoundDiv(latency * 1000, Scale)

\* (timestamp / 1_000_000.0) - (latency / 1_000.0), held in microseconds
adjustedTimestamp(timestamp, latency) ==
    timestamp - RoundDiv(latency * 1000, Scale)

\* the locals of getPoseEstimate once the array is read and non-empty
decodeLocals(tsValue) ==
    LET poseArray == tsValue.value
        timestamp == tsValue.time
        latency   == extractArrayEntry(poseArray, 6)
        tagCount  == int(extractArrayEntry(poseArray, 7))
        reads     == fiducialReads(poseArray, tagCount)
    IN  [pose      |-> toPose3d(poseArray).value,
         latency   |-> latency,
         tagCount  |-> tagCount,
         tagSpan   |-> extractArrayEntry(poseArray, 8),
         tagDist   |-> extractArrayEntry(poseArray, 9),
         tagArea   |-> extractArrayEntry(poseArray, 10),
         adjustedTimestamp |-> adjustedTimestamp(timestamp, latency),
         rawFiducials |->
             IF populatesFiducials(poseArray, tagCount)
             THEN [i \in 1 .. tagCount |-> fiducialAt(poseArray, i - 1)]
             ELSE placeholderFiducials(tagCount),
         reads     |-> reads,
         raised    |-> ~(reads \subseteq Indices(poseArray))]

\* the k-th of the nine attribute stores under `if pose:`
NumStores == 9

Store(self, k, locals) ==
    CASE k = 1 -> [self EXCEPT !.pose = locals.pose]
      [] k = 2 -> [self EXCEPT !.timestampSeconds = locals.adjustedTimestamp]
      [] k = 3 -> [self EXCEPT !.latency = locals.latency]
      [] k = 4 -> [self EXCEPT !.tagCount = locals.tagCount]
      [] k = 5 -> [self EXCEPT !.tagSpan = locals.tagSpan]
      [] k = 6 -> [self EXCEPT !.avgTagDist = locals.tagDist]
      [] k = 7 -> [self EXCEPT !.avgTagArea = locals.tagArea]
      [] k = 8 -> [self EXCEPT !.rawFiducials = locals.rawFiducials,
                               !.rawFiducialsSet = TRUE]
      [] k = 9 -> [self EXCEPT !.hasData = Len(locals.rawFiducials) > 0]

RECURSIVE StoreAll(_, _, _)
StoreAll(self, k, locals) ==
    IF k > NumStores THEN self ELSE StoreAll(Store(self, k, locals), k + 1, locals)

\* `if pose:` a Pose3d object is truthy, None is not
truthyAlways(pose) == TRUE

truthy(pose) == pose # None

\* PoseEstimate.getPoseEstimate as one call: the object afterwards, what is
\* returned ("self", "None") or raised ("IndexError"), and the indices read
getPoseEstimate(self, tsValue) ==
    LET locals == decodeLocals(tsValue)
    IN  IF Len(tsValue.value) = 0
        THEN [self |-> [self EXCEPT !.hasData = FALSE], kind |-> "None", reads |-> {}]
        ELSE IF locals.raised
        THEN [self |-> self, kind |-> "IndexError", reads |-> locals.reads]
        ELSE IF truthy(locals.pose)
        THEN [self |-> StoreAll(self, 1, locals), kind |-> "self",
              reads |-> locals.reads]
        ELSE [self |-> self, kind |-> "None", reads |-> locals.reads]

\* -- the ambiguity statistics of a PoseEstimate --------------------------

\* a call that raised the named exception
Raises(exception) == [raised |-> TRUE, value |-> None]

\* the ambiguity attributes of the records of a list
Ambiguities(rawFiducials) ==
    {rawFiducials[i].ambiguity : i \in DOMAIN rawFiducials}

RECURSIVE sum(_)
sum(rawFiducials) ==
    IF rawFiducials = <<>>
    THEN 0
    ELSE Head(rawFiducials).ambiguity + sum(Tail(rawFiducials))

\* what the body after `if not self.hasData: return 1` does with self.rawFiducials:
\* the attribute may be unset, min / max of no element and a division by
\* len(...) = 0 raise
statistic(self, value) ==
    IF ~self.rawFiducialsSet THEN Raises("AttributeError")
    ELSE IF self.rawFiducials = <<>> THEN Raises("ValueError")
    ELSE Returned(value)

getMinTagAmbiguity(self) ==
    IF ~self.hasData
    THEN Returned(1 * Scale)
    ELSE statistic(self, CHOOSE a \in Ambiguities(self.rawFiducials) :
                             \A b \in Ambiguities(self.rawFiducials) : a <= b)

getMaxTagAmbiguity(self) ==
    IF ~self.hasData
    THEN Returned(1 * Scale)
    ELSE statistic(self, CHOOSE a \in Ambiguities(self.rawFiducials) :
                             \A b \in Ambiguities(self.rawFiducials) : a >= b)

\* getAvgTagAmbiguity without its first two lines
getAvgTagAmbiguityUnchecked(self) ==
    IF ~self.rawFiducialsSet THEN Raises("AttributeError")
    ELSE IF Len(self.rawFiducials) = 0 THEN Raises("ZeroDivisionError")
    ELSE Returned(RoundDiv(sum(self.rawFiducials), Len(self.rawFiducials)))

getAvgTagAmbiguity(self) ==
    IF ~self.hasData
    THEN Returned(1 * Scale)
    ELSE IF ~self.rawFiducialsSet THEN Raises("AttributeError")
    ELSE IF Len(self.rawFiducials) = 0 THEN Raises("ZeroDivisionError")
    ELSE Returned(RoundDiv(sum(self.rawFiducials), Len(self.rawFiducials)))

---------------------------------------------------------------------------
(* BotPose and the NetworkTables *)

Cameras == {"limelight", "limelight-rear"}

Variants == {"RED", "RED_MEGATAG2", "BLUE", "BLUE_MEGATAG2"}

\* BotPose.<variant>.value[0]
EntryOf(variant) ==
    CASE variant = "RED"           -> "botpose_wpired"
      [] variant = "RED_MEGATAG2"  -> "botpose_orb_wpired"
      [] variant = "BLUE"          -> "botpose_wpiblue"
      [] variant = "BLUE_MEGATAG2" -> "botpose_orb_wpiblue"

\* BotPose.<variant>.value[1]
IsMegaTag2(variant) == variant \in {"RED_MEGATAG2", "BLUE_MEGATAG2"}

PoseEntries == {EntryOf(v) : v \in Variants}

Entries ==
    PoseEntries \cup {"rawfiducials", "rawdetections", "t2d", "llpython",
                      "camerapose_robotspace"}

Threads == {1, 2}

\* -- the arrays the camera publishes in this model ------------------------

\* element i (from 1) of a published array: odd multiples of 1/Scale of
\* alternating sign, all different
Elem(i) == IF i % 2 = 0 THEN -(2 * i + 1) ELSE 2 * i + 1

\* the values published as tagCount (element 7): -1.5, 0, 1, 1.5, 2, 3 at Scale 2
TagCountVals == {-Scale - 1, 0, Scale, Scale + 1, 2 * Scale, 3 * Scale}

PoseArray(len, tc, sign) ==
    [i \in 1 .. len |-> IF i = 8 THEN tc ELSE sign * Elem(i)]

\* a payload without tags whose latency (element 6) is 50 ms
FiftyMs == [PoseArray(11, 0, 1) EXCEPT ![7] = 50 * Scale]

PoseArrays ==
    {PoseArray(len, tc, sign) : len \in 0 .. MaxLen, tc \in TagCountVals,
                                sign \in {1, -1}}
        \cup {FiftyMs}

\* NetworkTables server times, in microseconds
Times == {2000000, 3500000}

NoRead == [value |-> <<>>, time |-> 0]

NoResult ==
    [op |-> "none", variant |-> "", camera |-> "", kind |-> "", ref |-> 0,
     read |-> NoRead, reads |-> {}]

NoOutcome ==
    [op |-> "none", arg |-> <<>>, position |-> 0, raised |-> FALSE, value |-> None]

NoFrame ==
    [variant |-> "", camera |-> "", self |-> 0, read |-> NoRead, k |-> 0,
     kind |-> ""]

\* the state right after the module is imported: nothing cached, nothing called
InitObjects ==
    /\ poseEstimate = [v \in Variants |-> 0]
    /\ heap = <<>>
    /\ result = NoResult
    /\ outcome = NoOutcome
    /\ pc = [t \in Threads |-> "idle"]
    /\ frame = [t \in Threads |-> NoFrame]

\* BotPose.<variant>.get(camera): what it does to the cache, the objects and
\* the caller's result
BotPoseGet(variant, camera) ==
    LET fresh   == poseEstimate[variant] = 0
        ref     == IF fresh THEN Len(heap) + 1 ELSE poseEstimate[variant]
        heap1   == IF fresh
                   THEN Append(heap, NewPoseEstimate(camera, EntryOf(variant),
                                                     IsMegaTag2(variant)))
                   ELSE heap
        self    == heap1[ref]
        tsValue == nt[self.poseEntryTable][self.poseEntryName]
        call    == getPoseEstimate(self, tsValue)
    IN  /\ poseEstimate' = [poseEstimate EXCEPT ![variant] = ref]
        /\ heap' = [heap1 EXCEPT ![ref] = call.self]
        /\ result' = [op |-> "get", variant |-> variant, camera |-> camera,
                      kind |-> call.kind,
                      ref |-> IF call.kind = "self" THEN ref ELSE 0,
                      read |-> tsValue, reads |-> call.reads]

\* BotPose.<variant>.get(camera), run to completion by one caller
Get(variant, camera) ==
    /\ BotPoseGet(variant, camera)
    /\ UNCHANGED <<nt, outcome, pc, frame>>

\* -- calls of the static decoders on the array of an entry ----------------

Call(op, arg, position, out) ==
    /\ outcome' = [op |-> op, arg |-> arg, position |-> position,
                   raised |-> out.raised, value |-> out.value]
    /\ UNCHANGED <<nt, poseEstimate, heap, result, pc, frame>>

\* LimelightData.getPythonData: the raw list of "llpython", which a caller may
\* hand to any static decoder
getPythonData(c) == nt[c]["llpython"].value

\* LimelightData.getCamera2Robot
CallToPose3d(c) ==
    Call("toPose3d", nt[c]["camerapose_robotspace"].value, 0,
         toPose3d(nt[c]["camerapose_robotspace"].value))

CallToPose2d(c) ==
    Call("toPose2d", getPythonData(c), 0, toPose2d(getPythonData(c)))

CallToTranslation3d(c) ==
    Call("toTranslation3d", getPythonData(c), 0, toTranslation3d(getPythonData(c)))

CallToOrientation(c) ==
    Call("toOrientation", getPythonData(c), 0, toOrientation(getPythonData(c)))

\* the caller encodes the orientation it has just decoded
CallOrientation3dToArray(c) ==
    Call("orientation3dToArray(toOrientation)", getPythonData(c), 0,
         IF toOrientation(getPythonData(c)).raised
         THEN toOrientation(getPythonData(c))
         ELSE Returned(orientation3dToArray(toOrientation(getPythonData(c)).value)))

CallExtractArrayEntry(c) ==
    \E position \in 0 .. (MaxLen + 1) :
        Call("extractArrayEntry", getPythonData(c), position,
             Returned(extractArrayEntry(getPythonData(c), position)))

CallGetRawFiducials(c) ==
    Call("getRawFiducials", nt[c]["rawfiducials"].value, 0,
         getRawFiducials(nt[c]["rawfiducials"].value))

CallGetRawDetections(c) ==
    Call("getRawDetections", nt[c]["rawdetections"].value, 0,
         getRawDetections(nt[c]["rawdetections"].value))

CallGetTargetCount(c) ==
    Call("getTargetCount", nt[c]["t2d"].value, 0, getTargetCount(nt[c]["t2d"].value))

CallGetClassifierClassIndex(c) ==
    Call("getClassifierClassIndex", nt[c]["t2d"].value, 0,
         getClassifierClassIndex(nt[c]["t2d"].value))

CallGetDetectorClassIndex(c) ==
    Call("getDetectorClassIndex", nt[c]["t2d"].value, 0,
         getDetectorClassIndex(nt[c]["t2d"].value))

---------------------------------------------------------------------------
(* SpecDecode: one published array, decoded by every operation *)

\* every entry of every table holds the same array, published once
InitDecode ==
    /\ \E arr \in PoseArrays, t \in Times :
           nt = [c \in Cameras |-> [e \in Entries |-> [value |-> arr, time |-> t]]]
    /\ InitObjects

GetBlue == Get("BLUE", "limelight")

NextDecode ==
    \/ GetBlue
    \/ CallToPose3d("limelight")
    \/ CallToPose2d("limelight")
    \/ CallToTranslation3d("limelight")
    \/ CallToOrientation("limelight")
    \/ CallOrientation3dToArray("limelight")
    \/ CallExtractArrayEntry("limelight")
    \/ CallGetRawFiducials("limelight")
    \/ CallGetRawDetections("limelight")
    \/ CallGetTargetCount("limelight")
    \/ CallGetClassifierClassIndex("limelight")
    \/ CallGetDetectorClassIndex("limelight")

SpecDecode == InitDecode /\ [][NextDecode]_vars

---------------------------------------------------------------------------
(* SpecPoll: the camera keeps publishing, one caller keeps polling *)

\* what the camera publishes here: nothing, an array too short for a pose, a
\* payload announcing one tag without its record, a payload with one record
PollSamples ==
    {[value |-> <<>>, time |-> 2000000],
     [value |-> PoseArray(4, 0, 1), time |-> 2000000],
     [value |-> PoseArray(11, Scale, 1), time |-> 2000000],
     [value |-> PoseArray(18, Scale, -1), time |-> 3500000]}

PollVariants == {"BLUE", "BLUE_MEGATAG2"}

\* getEntry([]): an entry nobody has published yet reads as the default, at time 0
InitPoll ==
    /\ nt = [c \in Cameras |-> [e \in Entries |-> NoRead]]
    /\ InitObjects

\* the camera c publishes a new value of entry e
Publish(c, e, sample) ==
    /\ nt[c][e] # sample
    /\ nt' = [nt EXCEPT ![c][e] = sample]
    /\ UNCHANGED <<poseEstimate, heap, result, outcome, pc, frame>>

\* the entries that receive values here: both pose entries of the front
\* camera, one of the rear camera
PollTopics ==
    {<<"limelight", "BLUE">>, <<"limelight", "BLUE_MEGATAG2">>,
     <<"limelight-rear", "BLUE">>}

NextPoll ==
    \/ \E topic \in PollTopics, s \in PollSamples :
           Publish(topic[1], EntryOf(topic[2]), s)
    \/ \E v \in PollVariants, c \in Cameras : Get(v, c)

SpecPoll == InitPoll /\ [][NextPoll]_vars

---------------------------------------------------------------------------
(* SpecThreads: two threads call BotPose.BLUE.get at the same time.  A     *)
(* thread switch can fall between any two statements of get and of         *)
(* getPoseEstimate; the statements that touch only locals are one step.    *)

\* thread t calls BotPose.<variant>.get(camera)
Enter(t, variant, camera) ==
    /\ pc[t] = "idle"
    /\ pc' = [pc EXCEPT ![t] = "check"]
    /\ frame' = [frame EXCEPT ![t] = [NoFrame EXCEPT !.variant = variant,
                                                    !.camera = camera]]
    /\ UNCHANGED <<nt, poseEstimate, heap, result, outcome>>

\* `if not self.__poseEstimate:`
Check(t) ==
    /\ pc[t] = "check"
    /\ pc' = [pc EXCEPT ![t] = IF poseEstimate[frame[t].variant] = 0
                               THEN "construct" ELSE "load"]
    /\ UNCHANGED <<nt, poseEstimate, heap, result, outcome, frame>>

\* `estimate = PoseEstimate(...); self.__poseEstimate = estimate`
Construct(t) ==
    /\ pc[t] = "construct"
    /\ heap' = Append(heap, NewPoseEstimate(frame[t].camera, EntryOf(frame[t].variant),
                                            IsMegaTag2(frame[t].variant)))
    /\ poseEstimate' = [poseEstimate EXCEPT ![frame[t].variant] = Len(heap) + 1]
    /\ pc' = [pc EXCEPT ![t] = "load"]
    /\ UNCHANGED <<nt, result, outcome, frame>>

\* `self.__poseEstimate.getPoseEstimate()` up to `self.__poseEntry.getAtomic()`
Load(t) ==
    /\ pc[t] = "load"
    /\ LET self == poseEstimate[frame[t].variant]
       IN  frame' = [frame EXCEPT ![t].self = self,
                                  ![t].read = nt[heap[self].poseEntryTable]
                                                [heap[self].poseEntryName]]
    /\ pc' = [pc EXCEPT ![t] = "decode"]
    /\ UNCHANGED <<nt, poseEstimate, heap, result, outcome>>

\* from `if len(poseArray) == 0:` to `if pose:`
Decode(t) ==
    /\ pc[t] = "decode"
    /\ LET locals == decodeLocals(frame[t].read)
           self   == frame[t].self
       IN  IF Len(frame[t].read.value) = 0
           THEN /\ heap' = [heap EXCEPT ![self].hasData = FALSE]
                /\ pc' = [pc EXCEPT ![t] = "done"]
                /\ frame' = [frame EXCEPT ![t].kind = "None"]
           ELSE IF locals.raised
           THEN /\ pc' = [pc EXCEPT ![t] = "done"]
                /\ frame' = [frame EXCEPT ![t].kind = "IndexError"]
                /\ UNCHANGED heap
           ELSE IF truthy(locals.pose)
           THEN /\ pc' = [pc EXCEPT ![t] = "store"]
                /\ frame' = [frame EXCEPT ![t].k = 1]
                /\ UNCHANGED heap
           ELSE /\ pc' = [pc EXCEPT ![t] = "done"]
                /\ frame' = [frame EXCEPT ![t].kind = "None"]
                /\ UNCHANGED heap
    /\ UNCHANGED <<nt, poseEstimate, result, outcome>>

\* one of the attribute stores `self.pose = pose` .. `self.hasData = ...`
StoreStep(t) ==
    /\ pc[t] = "store"
    /\ heap' = [heap EXCEPT ![frame[t].self] =
                    Store(heap[frame[t].self], frame[t].k, decodeLocals(frame[t].read))]
    /\ IF frame[t].k = NumStores
       THEN /\ pc' = [pc EXCEPT ![t] = "return"]
            /\ UNCHANGED frame
       ELSE /\ frame' = [frame EXCEPT ![t].k = frame[t].k + 1]
            /\ UNCHANGED pc
    /\ UNCHANGED <<nt, poseEstimate, result, outcome>>

\* `return self`
Return(t) ==
    /\ pc[t] = "return"
    /\ pc' = [pc EXCEPT ![t] = "done"]
    /\ frame' = [frame EXCEPT ![t].kind = "self"]
    /\ UNCHANGED <<nt, poseEstimate, heap, result, outcome>>

NextThreads ==
    \/ \E s \in PollSamples : Publish("limelight", EntryOf("BLUE"), s)
    \/ \E t \in Threads : Enter(t, "BLUE", "limelight")
    \/ \E t \in Threads : Check(t)
    \/ \E t \in Threads : Construct(t)
    \/ \E t \in Threads : Load(t)
    \/ \E t \in Threads : Decode(t)
    \/ \E t \in Threads : StoreStep(t)
    \/ \E t \in Threads : Return(t)

SpecThreads == InitPoll /\ [][NextThreads]_vars

---------------------------------------------------------------------------
(* SpecAmbiguity: the ambiguity statistics of the estimates a caller holds, *)
(* between polls of BotPose.BLUE on one camera                              *)

\* the payloads of SpecPoll, one without tags and one with two records
AmbiguitySamples ==
    PollSamples \cup {[value |-> PoseArray(11, 0, 1), time |-> 3500000],
                      [value |-> PoseArray(25, 2 * Scale, 1), time |-> 3500000]}

\* most PoseEstimate objects alive at a time
MaxObjects == 2

\* a caller constructs PoseEstimate(camera, "botpose_wpiblue", False) itself
NewEstimate(camera) ==
    /\ Len(heap) < MaxObjects
    /\ heap' = Append(heap, NewPoseEstimate(camera, EntryOf("BLUE"), FALSE))
    /\ UNCHANGED <<nt, poseEstimate, result, outcome, pc, frame>>

\* a statistic of object ref: the call records the list the object held
CallStatistic(op, ref, out) ==
    /\ outcome' = [op |-> op,
                   arg |-> heap[ref].rawFiducials,
                   position |-> ref, raised |-> out.raised, value |-> out.value]
    /\ UNCHANGED <<nt, poseEstimate, heap, result, pc, frame>>

CallGetMinTagAmbiguity ==
    \E ref \in DOMAIN heap :
        CallStatistic("getMinTagAmbiguity", ref, getMinTagAmbiguity(heap[ref]))

CallGetMaxTagAmbiguity ==
    \E ref \in DOMAIN heap :
        CallStatistic("getMaxTagAmbiguity", ref, getMaxTagAmbiguity(heap[ref]))

CallGetAvgTagAmbiguity ==
    \E ref \in DOMAIN heap :
        CallStatistic("getAvgTagAmbiguity", ref, getAvgTagAmbiguity(heap[ref]))

NextAmbiguity ==
    \/ \E s \in AmbiguitySamples : Publish("limelight", EntryOf("BLUE"), s)
    \/ Get("BLUE", "limelight")
    \/ NewEstimate("limelight")
    \/ CallGetMinTagAmbiguity
    \/ CallGetMaxTagAmbiguity
    \/ CallGetAvgTagAmbiguity

SpecAmbiguity == InitPoll /\ [][NextAmbiguity]_vars

---------------------------------------------------------------------------
(* LimelightResults: the JSON dump of the "json" entry                      *)
(*                                                                          *)
(* A string of the entry is described by whether it is empty, whether it is *)
(* JSON at all, and the JSON value it spells.  A Python value is a record   *)
(* with its class.                                                          *)

Num(n) == [type |-> "number", n |-> n]
Arr(items) == [type |-> "array", items |-> items]
Obj(members) == [type |-> "object", members |-> members]

float(n) == [class |-> "float", n |-> n]
list(items) == [class |-> "list", items |-> items]
dict(members) == [class |-> "dict", members |-> members]

\* data.get(key, default) of a dict
get(data, key, default) ==
    IF key \in DOMAIN data.members THEN data.members[key] ELSE default

\* the classes of targets.py and the key of the envelope that lists each
TargetClasses ==
    [Retro |-> "RetroreflectiveTape", Fiducial |-> "AprilTagFiducial",
     Classifier |-> "NeuralClassifier", Detector |-> "NeuralDetector",
     Barcode |-> "Barcode"]

\* <class>.fromJson(x) of targets.py: x.get(...) for each field, which only a
\* dict provides.  Of the fields, the id of a fiducial and tx_pixels are kept.
targetFromJson(class, x) ==
    IF x.class # "dict"
    THEN Raises("AttributeError")
    ELSE IF class = "AprilTagFiducial"
    THEN Returned([class |-> class, fiducialID |-> get(x, "fID", float(0)),
                   tx_pixels |-> get(x, "txp", float(0))])
    ELSE Returned([class |-> class, tx_pixels |-> get(x, "txp", float(0))])

\* [<class>.fromJson(x) for x in json_data.get(key, [])]
targetsFromJson(json_data, key) ==
    LET xs == get(json_data, key, list(<<>>))
    IN  IF xs.class # "list"
        THEN Raises("TypeError")
        ELSE IF \E i \in DOMAIN xs.items :
                    targetFromJson(TargetClasses[key], xs.items[i]).raised
        THEN Raises("AttributeError")
        ELSE Returned([i \in DOMAIN xs.items |->
                          targetFromJson(TargetClasses[key], xs.items[i]).value])

\* LimelightResults.fromJson(json_data); of the top-level fields pipelineID,
\* latency_pipeline and timestamp_LIMELIGHT_publish are kept
fromJson(json_data) ==
    IF \E key \in DOMAIN TargetClasses : targetsFromJson(json_data, key).raised
    THEN Raises("AttributeError")
    ELSE Returned(
             [class |-> "LimelightResults",
              pipelineID |-> get(json_data, "pID", float(0)),
              latency_pipeline |-> get(json_data, "tl", float(0)),
              timestamp_LIMELIGHT_publish |-> get(json_data, "ts", float(0)),
              targets_Retro |-> targetsFromJson(json_data, "Retro").value,
              targets_Fiducials |-> targetsFromJson(json_data, "Fiducial").value,
              targets_Classifier |-> targetsFromJson(json_data, "Classifier").value,
              targets_Detector |-> targetsFromJson(json_data, "Detector").value,
              targets_Barcode |-> targetsFromJson(json_data, "Barcode").value])

\* json.loads(..., object_hook=LimelightResults.fromJson) on a JSON value: the
\* decoder builds the value bottom-up and replaces EVERY object, nested ones
\* first, by what the hook returns for its dict
RECURSIVE loads(_)
loads(v) ==
    CASE v.type = "number" -> Returned(float(v.n))
      [] v.type = "array" ->
             IF \E i \in DOMAIN v.items : loads(v.items[i]).raised
             THEN Raises("AttributeError")
             ELSE Returned(list([i \in DOMAIN v.items |-> loads(v.items[i]).value]))
      [] v.type = "object" ->
             IF \E k \in DOMAIN v.members : loads(v.members[k]).raised
             THEN Raises("AttributeError")
             ELSE fromJson(dict([k \in DOMAIN v.members |->
                                    loads(v.members[k]).value]))

\* LimelightData.getResults on the string of the "json" entry: every exception
\* of the try block is caught and None returned
getResults(json_result) ==
    IF json_result.empty
    THEN Returned(None)
    ELSE IF ~json_result.parses
    THEN Returned(None)
    ELSE IF loads(json_result.root).raised
    THEN Returned(None)
    ELSE Returned(loads(json_result.root).value)

---------------------------------------------------------------------------
(* SpecResults: the camera publishes JSON dumps, a caller asks for results  *)

\* the empty string, the default of getString("")
EmptyText == [empty |-> TRUE, parses |-> FALSE, root |-> Num(0)]
\* a string that is no JSON
Garbage == [empty |-> FALSE, parses |-> FALSE, root |-> Num(0)]
\* a string that spells the JSON value root
Json(root) == [empty |-> FALSE, parses |-> TRUE, root |-> root]

\* an envelope with k sub-objects under one key of TargetClasses
Envelope(key, k) ==
    LET subs == Arr([i \in 1 .. k |-> Obj([fID |-> Num(2 + i), txp |-> Num(6 + i)])])
        top  == [pID |-> Num(1), tl |-> Num(15)]
    IN  Json(Obj([name \in DOMAIN top \cup {key} |->
                     IF name = key THEN subs ELSE top[name]]))

\* most sub-objects of an envelope
MaxTargets == 2

JsonTexts ==
    {EmptyText, Garbage, Json(Num(42)), Json(Arr(<<>>)),
     Json(Obj([pID |-> Num(1), tl |-> Num(15)]))}
        \cup {Envelope(key, k) : key \in DOMAIN TargetClasses, k \in 0 .. MaxTargets}

InitResults ==
    /\ nt = [c \in Cameras |->
                [e \in Entries \cup {"json"} |->
                    IF e = "json" THEN [value |-> EmptyText, time |-> 0] ELSE NoRead]]
    /\ InitObjects

PublishJson(c) ==
    \E text \in JsonTexts : Publish(c, "json", [value |-> text, time |-> 0])

CallGetResults(c) ==
    Call("getResults", nt[c]["json"].value, 0, getResults(nt[c]["json"].value))

NextResults ==
    \/ \E c \in Cameras : PublishJson(c)
    \/ \E c \in Cameras : CallGetResults(c)

SpecResults == InitResults /\ [][NextResults]_vars

---------------------------------------------------------------------------
(* SpecEncode: a caller hands poses and orientations to LimelightSettings   *)
(* and decodes what was encoded                                             *)

\* the entries LimelightSettings writes
SetEntries ==
    {"ledMode", "pipeline", "priorityid", "stream", "crop", "imumode_set",
     "robot_orientation_set", "fiducial_downscale_set", "fiducial_offset_set",
     "camerapose_robotspace_set", "fiducial_id_filters_set"}

\* an attribute of a LimelightSettings object that stands for the entry of
\* another attribute
settingsEntrySwapped(attribute) ==
    CASE attribute = "priorityTagID" -> "pipeline"
      [] attribute = "pipelineIndex" -> "priorityid"
      [] OTHER                       -> "ledMode"

\* LimelightSettings.__init__: the entry behind each attribute
settingsEntry(attribute) ==
    CASE attribute = "ledMode"                   -> "ledMode"
      [] attribute = "pipelineIndex"             -> "pipeline"
      [] attribute = "priorityTagID"             -> "priorityid"
      [] attribute = "streamMode"                -> "stream"
      [] attribute = "cropWindow"                -> "crop"
      [] attribute = "imuMode"                   -> "imumode_set"
      [] attribute = "robotOrientationSet"       -> "robot_orientation_set"
      [] attribute = "downscale"                 -> "fiducial_downscale_set"
      [] attribute = "fiducial3DOffset"          -> "fiducial_offset_set"
      [] attribute = "cameraToRobot"             -> "camerapose_robotspace_set"
      [] attribute = "fiducialIDFiltersOverride" -> "fiducial_id_filters_set"

\* angles of the rotations handed in, in 1e-4 rad: -45, 30 and 90 degrees.  The
\* roll, pitch and yaw of a Rotation3d are taken as its value; the pitch stays
\* inside (-90, 90) degrees, where the three angles of a rotation are unique.
Angles == {-7854, 5236, 15708}
PitchAngles == {-7854, 5236}

Rotations ==
    {Rotation3d(roll, pitch, yaw) : roll \in Angles, pitch \in PitchAngles,
                                    yaw \in Angles}

Poses == {Pose3d(3, -5, 7, rotation) : rotation \in Rotations}

\* the angular velocity has three different rates
Orientations ==
    {Orientation3d(rotation, AngularVelocity3d(2, 4, 6)) : rotation \in Rotations}

InitEncode ==
    /\ nt = [c \in Cameras |-> [e \in Entries \cup SetEntries |-> NoRead]]
    /\ InitObjects

\* a setter of the LimelightSettings object of camera c: the entry receives
\* the value, which the call record keeps next to what was handed in, and the
\* call returns the object it was made on
Set(op, c, e, arg, array) ==
    /\ nt' = [nt EXCEPT ![c][e].value = array]
    /\ outcome' = [op |-> op, arg |-> arg, position |-> 0, raised |-> FALSE,
                   value |-> array, self |-> c, returned |-> c]
    /\ UNCHANGED <<poseEstimate, heap, result, pc, frame>>

withCameraToRobot(c, pose) ==
    Set("withCameraToRobot", c, settingsEntry("cameraToRobot"), pose,
        pose3dToArray(pose))

withRobotOrientation(c, orientation) ==
    Set("withRobotOrientation", c, settingsEntry("robotOrientationSet"),
        orientation, orientation3dToArray(orientation))

\* the caller decodes the array of the pose it has just set
DecodeCameraToRobot(c) ==
    /\ outcome.op = "withCameraToRobot"
    /\ outcome' = [op |-> "toPose3d(pose3dToArray)", arg |-> outcome.arg,
                   position |-> 0,
                   raised |-> toPose3d(nt[c]["camerapose_robotspace_set"].value).raised,
                   value |-> toPose3d(nt[c]["camerapose_robotspace_set"].value).value]
    /\ UNCHANGED <<nt, poseEstimate, heap, result, pc, frame>>

NextEncode ==
    \/ \E pose \in Poses : withCameraToRobot("limelight", pose)
    \/ \E orientation \in Orientations :
           withRobotOrientation("limelight", orientation)
    \/ DecodeCameraToRobot("limelight")

SpecEncode == InitEncode /\ [][NextEncode]_vars

---------------------------------------------------------------------------
(* Properties of the decoders, stated on the array itself *)

\* k is the double x truncated towards zero
Truncates(x, k) ==
    /\ Abs(k) * Scale <= Abs(x)
    /\ Abs(x) < (Abs(k) + 1) * Scale
    /\ (k > 0 => x > 0) /\ (k < 0 => x < 0)

\* rad (1e-4 rad) is the angle deg (degrees, wire resolution), to the nearest unit
IsRadians(deg, rad) ==
    2 * Abs(rad * 180 * Scale - deg * 31416) <= 180 * Scale

\* the get() call has returned or raised, having read this array
Polled == result.op = "get"
polledArray == result.read.value
\* the PoseEstimate object the call returned
polledEstimate == heap[result.ref]

\* the tagCount the array of the last poll carries: element 7 truncated, 0 if absent
PolledTagCount(n) ==
    IF Len(polledArray) > 7 THEN Truncates(polledArray[8], n) ELSE n = 0

\* record i (from 0) of the array, as the layout of the payload defines it
IsFiducialOf(f, arr, i) ==
    /\ Truncates(arr[11 + 7 * i + 1], f.id)
    /\ f.txnc = arr[11 + 7 * i + 2]
    /\ f.tync = arr[11 + 7 * i + 3]
    /\ f.ta = arr[11 + 7 * i + 4]
    /\ f.distToCamera = arr[11 + 7 * i + 5]
    /\ f.distToRobot = arr[11 + 7 * i + 6]
    /\ f.ambiguity = arr[11 + 7 * i + 7]

\* the field at index p of the array, 0 when the array is too short
IsEntryOf(v, arr, p) == IF Len(arr) > p THEN v = arr[p + 1] ELSE v = 0

\* C1: a pose array of length >= 6 whose tagCount n > 0 does not match its
\* length (length # 11 + 7n) gives a result with pose, latency, tagSpan,
\* avgTagDist and avgTagArea from the array, an empty rawFiducials list and
\* hasData = false.
C1_MismatchedLengthGivesNoFiducials ==
    \A n \in 1 .. MaxLen :
        (/\ Polled
         /\ Len(polledArray) >= 6
         /\ PolledTagCount(n)
         /\ Len(polledArray) # 11 + 7 * n)
        => /\ result.kind = "self"
           /\ polledEstimate.pose.x = polledArray[1]
           /\ polledEstimate.pose.y = polledArray[2]
           /\ polledEstimate.pose.z = polledArray[3]
           /\ IsEntryOf(polledEstimate.latency, polledArray, 6)
           /\ IsEntryOf(polledEstimate.tagSpan, polledArray, 8)
           /\ IsEntryOf(polledEstimate.avgTagDist, polledArray, 9)
           /\ IsEntryOf(polledEstimate.avgTagArea, polledArray, 10)
           /\ polledEstimate.rawFiducials = <<>>
           /\ polledEstimate.hasData = FALSE

\* C2: a pose array of length exactly 11 + 7 * tagCount gives exactly tagCount
\* RawFiducial records; record i has id = element 11+7i truncated and txnc,
\* tync, ta, distToCamera, distToRobot, ambiguity = elements 11+7i+1 .. 11+7i+6.
C2_FiducialsDecodedAtStride7 ==
    \A n \in 0 .. MaxLen :
        (/\ Polled
         /\ PolledTagCount(n)
         /\ Len(polledArray) = 11 + 7 * n)
        => /\ result.kind = "self"
           /\ polledEstimate.rawFiducialsSet
           /\ Len(polledEstimate.rawFiducials) = n
           /\ \A i \in 0 .. (n - 1) :
                  IsFiducialOf(polledEstimate.rawFiducials[i + 1], polledArray, i)

\* two records decoded, the first with a negative id that truncation rounds up
C2_Witness ==
    /\ Polled
    /\ result.kind = "self"
    /\ Len(polledArray) = 25
    /\ Len(polledEstimate.rawFiducials) = 2
    /\ polledEstimate.rawFiducials[1].id < 0
    /\ polledEstimate.rawFiducials[1].id * Scale > polledArray[12]

\* C3: after every call that returns a result, hasData is true iff the
\* rawFiducials list of the result is non-empty; and the list is not always
\* tagCount long: some input with tagCount > 0 gives a result whose list is empty.
C3_HasDataIffFiducialsAndListMayBeEmpty ==
    (Polled /\ result.kind = "self")
    => /\ polledEstimate.hasData <=> (polledEstimate.rawFiducials # <<>>)
       /\ \E arr \in PoseArrays, t \in Times :
              LET call == getPoseEstimate(NewPoseEstimate("limelight", "botpose_wpiblue",
                                                          FALSE),
                                          [value |-> arr, time |-> t])
              IN  /\ call.kind = "self"
                  /\ call.self.tagCount > 0
                  /\ call.self.rawFiducials = <<>>

\* C6: no decoder operation raises on an array of the wrong length: for every
\* input length each of them returns a value.
C6_NoDecoderRaises ==
    /\ outcome.raised = FALSE
    /\ result.kind # "IndexError"

\* C7: for every array length and every tagCount, every index getPoseEstimate
\* subscripts while decoding fiducials lies inside the array and below
\* 11 + 7 * tagCount.
C7_FiducialReadsInBounds ==
    \A n \in (-MaxLen) .. MaxLen :
        (Polled /\ PolledTagCount(n))
        => /\ result.kind # "IndexError"
           /\ \A p \in result.reads :
                  /\ 0 <= p /\ p < Len(polledArray)
                  /\ 11 <= p /\ p < 11 + 7 * n

\* the loop has read up to the last element of the array
C7_Witness ==
    /\ Polled
    /\ result.reads # {}
    /\ (Len(polledArray) - 1) \in result.reads

\* C8: getPoseEstimate returns None for the empty array and for an array of 1
\* to 5 elements, and fills in nothing of the result.
C8_ShortArrayGivesNone ==
    (Polled /\ Len(polledArray) < 6)
    => /\ result.kind = "None"
       /\ result.ref = 0
       /\ heap[poseEstimate[result.variant]] =
              NewPoseEstimate(result.camera, EntryOf(result.variant),
                              IsMegaTag2(result.variant))

\* a poll of a non-empty array too short for a pose has returned None
C8_Witness ==
    /\ Polled
    /\ Len(polledArray) \in 1 .. 5
    /\ result.kind = "None"

\* C9: toPose3d and toPose2d return None for every array of fewer than 6
\* elements and a pose for every array of 6 or more.
C9_ShortPoseIsAbsent ==
    outcome.op \in {"toPose3d", "toPose2d"}
    => /\ outcome.raised = FALSE
       /\ (Len(outcome.arg) < 6) <=> (outcome.value = None)
       /\ Len(outcome.arg) >= 6 => outcome.value.x = outcome.arg[1]

\* toPose3d has decoded an array of exactly 6 elements
C9_Witness ==
    /\ outcome.op = "toPose3d"
    /\ Len(outcome.arg) = 6
    /\ outcome.value # None

\* C10: for an array of 6 or more elements toPose3d gives position
\* (data[0], data[1], data[2]) and rotation roll, pitch, yaw =
\* deg2rad of data[3], data[4], data[5], whatever follows index 5; toPose2d
\* keeps x = data[0], y = data[1], yaw = deg2rad(data[5]) only.
C10_PoseFromFirstSixElements ==
    /\ (outcome.op = "toPose3d" /\ Len(outcome.arg) >= 6)
       => /\ outcome.value.x = outcome.arg[1]
          /\ outcome.value.y = outcome.arg[2]
          /\ outcome.value.z = outcome.arg[3]
          /\ IsRadians(outcome.arg[4], outcome.value.rotation.roll)
          /\ IsRadians(outcome.arg[5], outcome.value.rotation.pitch)
          /\ IsRadians(outcome.arg[6], outcome.value.rotation.yaw)
    /\ (outcome.op = "toPose2d" /\ Len(outcome.arg) >= 6)
       => /\ DOMAIN outcome.value = {"x", "y", "rotation"}
          /\ outcome.value.x = outcome.arg[1]
          /\ outcome.value.y = outcome.arg[2]
          /\ IsRadians(outcome.arg[6], outcome.value.rotation)

\* toPose3d has decoded an array longer than 6 whose roll and yaw differ
C10_Witness ==
    /\ outcome.op = "toPose3d"
    /\ Len(outcome.arg) > 6
    /\ outcome.value.rotation.roll # outcome.value.rotation.yaw
    /\ outcome.value.rotation.yaw # outcome.arg[6]

\* the data attributes of a PoseEstimate, as a caller reads them
Fields(obj) ==
    [pose |-> obj.pose, timestampSeconds |-> obj.timestampSeconds,
     latency |-> obj.latency, tagCount |-> obj.tagCount,
     rawFiducials |-> obj.rawFiducials, hasData |-> obj.hasData]

\* C4: the result of one poll is an immutable snapshot made for that poll: its
\* pose, timestampSeconds, latency, tagCount, rawFiducials and hasData do not
\* change when the same variant is polled again with other bus data.
C4_ResultIsImmutableSnapshot ==
    [][result.kind = "self"
       => Fields(heap'[result.ref]) = Fields(heap[result.ref])]_vars

\* C5: under every interleaving of two concurrent get calls, the result a
\* caller holds has all of its fields derived from one single array read.
C5_ResultFromOneRead ==
    \A t \in Threads :
        (pc[t] = "done" /\ frame[t].kind = "self")
        => \E u \in Threads :
               /\ frame[u].self = frame[t].self
               /\ Fields(heap[frame[t].self]) =
                      Fields(StoreAll(heap[frame[t].self], 1,
                                      decodeLocals(frame[u].read)))

---------------------------------------------------------------------------
(* Properties of the entry decoders and of the bounds-checked reads *)

\* the seven values of f are elements base .. base+6 of arr, the id truncated
IsFiducialAt(f, arr, base) ==
    /\ Truncates(arr[base + 1], f.id)
    /\ <<f.txnc, f.tync, f.ta, f.distToCamera, f.distToRobot, f.ambiguity>> =
           SubSeq(arr, base + 2, base + 7)

\* the twelve values of d are elements base .. base+11 of arr, the class id truncated
IsDetectionAt(d, arr, base) ==
    /\ Truncates(arr[base + 1], d.class_id)
    /\ <<d.txnc, d.tync, d.ta, d.corner0_X, d.corner0_Y, d.corner1_X, d.corner1_Y,
         d.corner2_X, d.corner2_Y, d.corner3_X, d.corner3_Y>> =
           SubSeq(arr, base + 2, base + 12)

\* C11: getRawFiducials returns the empty list whenever the length of the array
\* is not a multiple of 7; for a length 7k it returns k records, record i built
\* from elements 7i .. 7i+6 as id (truncated), txnc, tync, ta, distToCamera,
\* distToRobot, ambiguity.
C11_RawFiducialsStride7OrEmpty ==
    outcome.op = "getRawFiducials"
    => /\ outcome.raised = FALSE
       /\ (Len(outcome.arg) % 7 # 0) => outcome.value = <<>>
       /\ (Len(outcome.arg) % 7 = 0)
          => /\ Len(outcome.value) * 7 = Len(outcome.arg)
             /\ \A i \in 0 .. (Len(outcome.value) - 1) :
                    IsFiducialAt(outcome.value[i + 1], outcome.arg, 7 * i)

\* getRawFiducials has decoded three records
C11_Witness ==
    /\ outcome.op = "getRawFiducials"
    /\ Len(outcome.arg) = 21
    /\ Len(outcome.value) = 3

\* C12: getRawDetections returns the empty list whenever the length of the array
\* is not a multiple of 12; for a length 12k it returns k records, record i
\* built from elements 12i .. 12i+11 as classId (truncated), txnc, tync, ta and
\* the four corners as x, y pairs.
C12_RawDetectionsStride12OrEmpty ==
    outcome.op = "getRawDetections"
    => /\ outcome.raised = FALSE
       /\ (Len(outcome.arg) % 12 # 0) => outcome.value = <<>>
       /\ (Len(outcome.arg) % 12 = 0)
          => /\ Len(outcome.value) * 12 = Len(outcome.arg)
             /\ \A i \in 0 .. (Len(outcome.value) - 1) :
                    IsDetectionAt(outcome.value[i + 1], outcome.arg, 12 * i)

\* getRawDetections has decoded two records
C12_Witness ==
    /\ outcome.op = "getRawDetections"
    /\ Len(outcome.arg) = 24
    /\ Len(outcome.value) = 2

\* C13: getTargetCount, getClassifierClassIndex and getDetectorClassIndex return
\* 0 for every t2d array whose length is not 17, and for a length of 17 the
\* truncated elements 1, 10 and 11.
C13_T2dGettersNeedLength17 ==
    \A g \in {<<"getTargetCount", 1>>, <<"getClassifierClassIndex", 10>>,
              <<"getDetectorClassIndex", 11>>} :
        outcome.op = g[1]
        => /\ outcome.raised = FALSE
           /\ (Len(outcome.arg) # 17) => outcome.value = 0
           /\ (Len(outcome.arg) = 17)
              => Truncates(outcome.arg[g[2] + 1], outcome.value)

\* getDetectorClassIndex has read a 17-element t2d whose element 11 is negative
C13_Witness ==
    /\ outcome.op = "getDetectorClassIndex"
    /\ Len(outcome.arg) = 17
    /\ outcome.value < 0
    /\ outcome.value * Scale > outcome.arg[12]

\* C15: the timestamp of a returned estimate is the bus timestamp moved back by
\* the latency: timestampSeconds = timestampMicros / 1e6 - latencyMillis / 1e3,
\* the latency being element 6 of the array (0 if absent); 2_000_000 us and
\* 50 ms give 1.95 s.
C15_TimestampMovedBackByLatency ==
    (Polled /\ result.kind = "self")
    => LET latencyMillis == IF Len(polledArray) > 6 THEN polledArray[7] ELSE 0
           micros        == polledEstimate.timestampSeconds
       IN  /\ 2 * Abs(Scale * micros
                      - (Scale * result.read.time - 1000 * latencyMillis)) <= Scale
           /\ (result.read.time = 2000000 /\ latencyMillis = 50 * Scale)
              => micros = 1950000

\* the payload with 50 ms of latency, read at 2 s, has been decoded
C15_Witness ==
    /\ Polled
    /\ result.kind = "self"
    /\ polledArray = FiftyMs
    /\ result.read.time = 2000000
    /\ polledEstimate.timestampSeconds = 1950000

\* C16: latency, tagCount, tagSpan, avgTagDist and avgTagArea are read from
\* indices 6 .. 10 with a bounds check: for an array of length L, 6 <= L <= 10,
\* each of them whose index is >= L is 0 in the result; and
\* extractArrayEntry(data, p) is 0 for every p >= len(data).
C16_MetricsReadWithBoundsCheck ==
    /\ (Polled /\ Len(polledArray) \in 6 .. 10)
       => /\ result.kind = "self"
          /\ \A p \in Len(polledArray) .. 10 :
                 <<polledEstimate.latency, polledEstimate.tagCount,
                   polledEstimate.tagSpan, polledEstimate.avgTagDist,
                   polledEstimate.avgTagArea>>[p - 5] = 0
          /\ \A p \in 6 .. (Len(polledArray) - 1) :
                 p # 7 => <<polledEstimate.latency, 0, polledEstimate.tagSpan,
                            polledEstimate.avgTagDist,
                            polledEstimate.avgTagArea>>[p - 5] = polledArray[p + 1]
    /\ (outcome.op = "extractArrayEntry" /\ outcome.position >= Len(outcome.arg))
       => outcome.value = 0

\* an array of 8 elements has been decoded: latency present, tagSpan absent
C16_Witness ==
    /\ Polled
    /\ result.kind = "self"
    /\ Len(polledArray) = 8
    /\ polledEstimate.latency = polledArray[7]
    /\ polledEstimate.tagSpan = 0

---------------------------------------------------------------------------
(* Properties of the ambiguity statistics *)

Statistics == {"getMinTagAmbiguity", "getMaxTagAmbiguity", "getAvgTagAmbiguity"}

\* C14: in every reachable state of a PoseEstimate whose fiducial list is empty
\* (never polled, last poll empty, last poll without fiducials),
\* getMinTagAmbiguity, getMaxTagAmbiguity and getAvgTagAmbiguity return 1 and
\* do not raise.
C14_EmptyListGivesAmbiguityOne ==
    /\ (outcome.op \in Statistics /\ outcome.arg = <<>>)
       => (outcome.raised = FALSE /\ outcome.value = 1 * Scale)
    /\ \A ref \in DOMAIN heap :
           heap[ref].rawFiducials = <<>>
           => \A out \in {getMinTagAmbiguity(heap[ref]), getMaxTagAmbiguity(heap[ref]),
                          getAvgTagAmbiguity(heap[ref])} :
                  out = Returned(1 * Scale)

\* the average has been asked of the cached estimate after a poll that decoded
\* a payload without tags
C14_Witness ==
    /\ outcome.op = "getAvgTagAmbiguity"
    /\ outcome.position = poseEstimate["BLUE"]
    /\ outcome.arg = <<>>
    /\ outcome.value = 1 * Scale
    /\ Polled
    /\ result.kind = "self"
    /\ heap[result.ref].rawFiducialsSet
    /\ heap[result.ref].rawFiducials = <<>>

---------------------------------------------------------------------------
(* Properties of the encoders *)

\* deg (degrees, wire resolution) is the angle rad (1e-4 rad), to the nearest unit
IsDegrees(rad, deg) ==
    2 * Abs(deg * 31416 - rad * 180 * Scale) <= 31416

\* two angles (1e-4 rad) no further apart than the wire resolves
SameAngle(a, b) ==
    360 * Scale * Abs(a - b) <= 31416 + 180 * Scale

\* C17: for every pose p, toPose3d(pose3dToArray(p)) reproduces the position
\* and the roll, pitch and yaw of p, and pose3dToArray(p) is
\* [x, y, z, roll, pitch, yaw] with the angles in degrees.
C17_PoseRoundTrip ==
    /\ outcome.op = "withCameraToRobot"
       => /\ SubSeq(outcome.value, 1, 3) = <<outcome.arg.x, outcome.arg.y, outcome.arg.z>>
          /\ Len(outcome.value) = 6
          /\ IsDegrees(outcome.arg.rotation.roll, outcome.value[4])
          /\ IsDegrees(outcome.arg.rotation.pitch, outcome.value[5])
          /\ IsDegrees(outcome.arg.rotation.yaw, outcome.value[6])
    /\ outcome.op = "toPose3d(pose3dToArray)"
       => /\ outcome.raised = FALSE
          /\ outcome.value # None
          /\ <<outcome.value.x, outcome.value.y, outcome.value.z>> =
                 <<outcome.arg.x, outcome.arg.y, outcome.arg.z>>
          /\ SameAngle(outcome.value.rotation.roll, outcome.arg.rotation.roll)
          /\ SameAngle(outcome.value.rotation.pitch, outcome.arg.rotation.pitch)
          /\ SameAngle(outcome.value.rotation.yaw, outcome.arg.rotation.yaw)

\* a pose whose roll, pitch and yaw all differ has been encoded and decoded
C17_Witness ==
    /\ outcome.op = "toPose3d(pose3dToArray)"
    /\ outcome.arg.rotation.roll = 15708
    /\ outcome.arg.rotation.pitch = 5236
    /\ outcome.arg.rotation.yaw = -7854
    /\ outcome.value.rotation.roll = 15708

\* C18: orientation3dToArray encodes an orientation as
\* [yaw, yawRate, pitch, pitchRate, roll, rollRate] with the angles of the
\* rotation converted from radians to degrees, so that the array
\* withRobotOrientation writes carries degrees.
C18_OrientationArrayInDegrees ==
    outcome.op = "withRobotOrientation"
    => /\ nt["limelight"]["robot_orientation_set"].value = outcome.value
       /\ Len(outcome.value) = 6
       /\ IsDegrees(outcome.arg.orientation.yaw, outcome.value[1])
       /\ outcome.value[2] = outcome.arg.angularVelocity.yaw
       /\ IsDegrees(outcome.arg.orientation.pitch, outcome.value[3])
       /\ outcome.value[4] = outcome.arg.angularVelocity.pitch
       /\ IsDegrees(outcome.arg.orientation.roll, outcome.value[5])
       /\ outcome.value[6] = outcome.arg.angularVelocity.roll

---------------------------------------------------------------------------
(* Properties of getResults *)

\* C19: getResults never raises: it returns None when the json entry is the
\* empty string and when the string fails to parse or to map, and otherwise
\* returns a LimelightResults object.
C19_GetResultsNoneOrResults ==
    outcome.op = "getResults"
    => /\ outcome.raised = FALSE
       /\ IF \/ outcome.arg.empty
             \/ ~outcome.arg.parses
             \/ loads(outcome.arg.root).raised
          THEN outcome.value = None
          ELSE /\ outcome.value # None
               /\ outcome.value.class = "LimelightResults"

\* C20: for a well-formed envelope whose Retro, Fiducial, Classifier, Detector
\* or Barcode array holds k >= 1 sub-objects, getResults returns a
\* LimelightResults whose list for that key holds k typed records with the
\* fields of the sub-objects (fID -> fiducialID, txp -> tx_pixels), and whose
\* top-level fields are those of the top-level object.
C20_TargetsOfEnvelopeAreTyped ==
    \A key \in DOMAIN TargetClasses, k \in 1 .. MaxTargets :
        (outcome.op = "getResults" /\ outcome.arg = Envelope(key, k))
        => /\ outcome.raised = FALSE
           /\ outcome.value # None
           /\ outcome.value.class = "LimelightResults"
           /\ outcome.value.pipelineID = float(1)
           /\ outcome.value.latency_pipeline = float(15)
           /\ LET targets ==
                      [Retro      |-> outcome.value.targets_Retro,
                       Fiducial   |-> outcome.value.targets_Fiducials,
                       Classifier |-> outcome.value.targets_Classifier,
                       Detector   |-> outcome.value.targets_Detector,
                       Barcode    |-> outcome.value.targets_Barcode][key]
              IN  /\ Len(targets) = k
                  /\ \A i \in 1 .. k :
                         /\ targets[i].class = TargetClasses[key]
                         /\ targets[i].tx_pixels = float(6 + i)
                         /\ key = "Fiducial" => targets[i].fiducialID = float(2 + i)

---------------------------------------------------------------------------
(* Limelight.createPoseEstimator and LimelightPoseEstimator *)

\* the member MEGATAG2 of the Enum EstimationMode and the values of bool, as
\* Python values: a member of a plain Enum equals nothing but itself
MEGATAG2 == [class |-> "EstimationMode", value |-> 1]
bool(b) == [class |-> "bool", value |-> IF b THEN 1 ELSE 0]

LimelightPoseEstimator(camera, estimationMode) ==
    [limelight |-> camera, estimationMode |-> estimationMode]

\* Limelight.createPoseEstimator(megatag2): the bool is handed over as the
\* estimation mode
createPoseEstimator(camera, megatag2) ==
    LimelightPoseEstimator(camera, bool(megatag2))

\* what DriverStation.getAlliance() may answer
Alliances == {"None", "kRed", "kBlue"}

\* the BotPose member LimelightPoseEstimator.getPoseEstimate polls
poseEstimateMember(self) ==
    IF self.estimationMode = MEGATAG2 THEN "BLUE_MEGATAG2" ELSE "BLUE"

\* the BotPose member LimelightPoseEstimator.getAlliancePoseEstimate polls
alliancePoseEstimateMember(self, alliance) ==
    IF alliance = "kRed"
    THEN IF self.estimationMode = MEGATAG2 THEN "RED_MEGATAG2" ELSE "RED"
    ELSE IF self.estimationMode = MEGATAG2 THEN "BLUE_MEGATAG2" ELSE "BLUE"

\* the record of a call on an estimator made with createPoseEstimator(megatag2)
EstimatorCall(op, megatag2, alliance) ==
    /\ outcome' = [op |-> op, megatag2 |-> megatag2, alliance |-> alliance,
                   raised |-> FALSE, value |-> None]
    /\ UNCHANGED <<nt, pc, frame>>

\* camera.createPoseEstimator(megatag2).getPoseEstimate(); the estimator has no
\* state besides its camera and its mode
EstimatorGetPoseEstimate(camera, megatag2) ==
    /\ BotPoseGet(poseEstimateMember(createPoseEstimator(camera, megatag2)), camera)
    /\ EstimatorCall("getPoseEstimate", megatag2, "None")

\* camera.createPoseEstimator(megatag2).getAlliancePoseEstimate()
EstimatorGetAlliancePoseEstimate(camera, megatag2, alliance) ==
    /\ IF alliance = "None"
       THEN /\ result' = NoResult
            /\ UNCHANGED <<poseEstimate, heap>>
       ELSE BotPoseGet(alliancePoseEstimateMember(
                           createPoseEstimator(camera, megatag2), alliance),
                       camera)
    /\ EstimatorCall("getAlliancePoseEstimate", megatag2, alliance)

\* what the camera publishes on its four pose entries here
EstimatorSamples ==
    {[value |-> PoseArray(11, 0, 1), time |-> 2000000],
     [value |-> PoseArray(18, Scale, -1), time |-> 3500000]}

NextEstimator ==
    \/ \E e \in PoseEntries, s \in EstimatorSamples : Publish("limelight", e, s)
    \/ \E megatag2 \in BOOLEAN : EstimatorGetPoseEstimate("limelight", megatag2)
    \/ \E megatag2 \in BOOLEAN, alliance \in Alliances :
           EstimatorGetAlliancePoseEstimate("limelight", megatag2, alliance)

SpecEstimator == InitPoll /\ [][NextEstimator]_vars

---------------------------------------------------------------------------
(* C21 *)

\* the wire entry an estimator of the given mode is to poll
EntryOfMode(megatag2, alliance) ==
    IF alliance = "kRed"
    THEN IF megatag2 THEN "botpose_orb_wpired" ELSE "botpose_wpired"
    ELSE IF megatag2 THEN "botpose_orb_wpiblue" ELSE "botpose_wpiblue"

\* C21: an estimator obtained from createPoseEstimator(megatag2=True) polls
\* botpose_orb_wpiblue (botpose_orb_wpired for the red alliance) and one
\* obtained with megatag2=False polls botpose_wpiblue (botpose_wpired), both
\* through the same decoder.
C21_EstimatorPollsEntryOfItsMode ==
    (outcome.op \in {"getPoseEstimate", "getAlliancePoseEstimate"}
        /\ result.op = "get")
    => LET polled == heap[poseEstimate[result.variant]]
       IN  /\ polled.poseEntryName = EntryOfMode(outcome.megatag2, outcome.alliance)
           /\ polled.isMegaTag2 = outcome.megatag2

---------------------------------------------------------------------------
(* Limelight.snapshot *)

\* the number of snapshot calls followed here
MaxSnapshots == 3

\* the number of requests of one task followed here
MaxRequests == 2

\* LimelightUtils.getLimelightURLString, with sanitizeName: urlunparse joins
\* the parts it is given and returns a non-empty string
getLimelightURLString(tableName, request) ==
    [scheme |-> "http",
     netloc |-> IF tableName = "" THEN "limelight" ELSE tableName,
     path |-> request]

\* how urlopen(request) may end: a response of status 200, a response of
\* another status, urllib.error.URLError, any other exception
Responses == {"200", "non-200", "URLError", "error"}

\* what task() leaves in its Future
taskValue(response) ==
    CASE response = "200"      -> "True"
      [] response = "non-200"  -> "False"
      [] response = "URLError" -> "False"
      [] response = "error"    -> "raised"

\* a task that goes back to its queue when the request did not succeed
afterRequestRetrying(response) ==
    IF response = "200" THEN "done" ELSE "submitted"

\* where task() stands once urlopen has ended: every path leaves the function
afterRequest(response) == "done"

\* Limelight.snapshot(snapshotName): a new executor takes task() and the call
\* returns None; the Future of submit() is dropped
Snapshot(snapshotName) ==
    /\ Len(heap) < MaxSnapshots
    /\ heap' = Append(heap, [snapshotName |-> snapshotName, state |-> "submitted",
                             requests |-> 0, headers |-> {}, value |-> "pending"])
    /\ result' = [op |-> "snapshot", ref |-> Len(heap) + 1, value |-> None]
    /\ UNCHANGED <<nt, poseEstimate, outcome, pc, frame>>

\* the worker thread runs task() up to its urlopen(request)
Open(i) ==
    LET url == getLimelightURLString("limelight", "capturesnapshot")
    IN  /\ heap[i].state = "submitted"
        /\ heap[i].requests < MaxRequests
        /\ heap' = [heap EXCEPT
                        ![i] = IF url = None
                               THEN [@ EXCEPT !.state = "done", !.value = "None"]
                               ELSE [@ EXCEPT !.state = "opened",
                                              !.requests = @ + 1,
                                              !.headers =
                                                  IF heap[i].snapshotName # ""
                                                  THEN {<<"snapname",
                                                          heap[i].snapshotName>>}
                                                  ELSE {}]]
        /\ UNCHANGED <<nt, poseEstimate, result, outcome, pc, frame>>

\* urlopen ends and task() runs to its end
Respond(i, response) ==
    /\ heap[i].state = "opened"
    /\ heap' = [heap EXCEPT ![i] = [@ EXCEPT !.state = afterRequest(response),
                                             !.value = taskValue(response)]]
    /\ UNCHANGED <<nt, poseEstimate, result, outcome, pc, frame>>

NextSnapshot ==
    \/ \E snapshotName \in {"", "auto"} : Snapshot(snapshotName)
    \/ \E i \in DOMAIN heap : Open(i)
    \/ \E i \in DOMAIN heap, response \in Responses : Respond(i, response)

SpecSnapshot == InitPoll /\ [][NextSnapshot]_vars

---------------------------------------------------------------------------
(* C22 *)

\* C22: snapshot is fire-and-forget: the call returns None right after the
\* task is submitted, before any request of that task, and never returns
\* anything else; a task issues at most one HTTP request, and once it has ended
\* (status 200 or not, URLError or not) it does nothing more.
C22_SnapshotFireAndForget ==
    [][/\ Len(heap') > Len(heap)
          => /\ result' = [op |-> "snapshot", ref |-> Len(heap'), value |-> None]
             /\ heap'[Len(heap')].state = "submitted"
             /\ heap'[Len(heap')].requests = 0
       /\ result'.op = "snapshot" => result'.value = None
       /\ \A i \in DOMAIN heap' : heap'[i].requests <= 1
       /\ \A i \in DOMAIN heap : heap[i].state = "done" => heap'[i] = heap[i]]_vars

\* a snapshot call has returned while its task has not started, after an
\* earlier task ended on a response that was not a 200 with its one request
C22_Witness ==
    /\ result.op = "snapshot"
    /\ heap[result.ref].state = "submitted"
    /\ \E i \in DOMAIN heap :
           /\ heap[i].state = "done"
           /\ heap[i].value = "False"
           /\ heap[i].requests = 1

---------------------------------------------------------------------------
(* SpecSettings: chains of LimelightSettings.withXXXX calls *)

\* LimelightUtils.translation3dToArray
translation3dToArray(translation) ==
    <<translation.x, translation.y, translation.z>>

\* a member of LEDMode, ImuMode, DownscalingOverride or StreamMode
Member(name, value) == [name |-> name, value |-> value]

\* <entry>.setDouble(n) of a Python number: the entry holds a double, not an
\* array
setDouble(n) == [double |-> Scale * n]

withLimelightLEDMode(c, mode) ==
    Set("withLimelightLEDMode", c, settingsEntry("ledMode"), mode,
        setDouble(mode.value))

withPipelineIndex(c, index) ==
    Set("withPipelineIndex", c, settingsEntry("pipelineIndex"), index,
        setDouble(index))

withPriorityTagId(c, aprilTagId) ==
    Set("withPriorityTagId", c, settingsEntry("priorityTagID"), aprilTagId,
        setDouble(aprilTagId))

withStreamMode(c, mode) ==
    Set("withStreamMode", c, settingsEntry("streamMode"), mode,
        setDouble(mode.value))

withCropWindow(c, minX, maxX, minY, maxY) ==
    Set("withCropWindow", c, settingsEntry("cropWindow"),
        <<minX, maxX, minY, maxY>>, <<minX, maxX, minY, maxY>>)

withImuMode(c, mode) ==
    Set("withImuMode", c, settingsEntry("imuMode"), mode, setDouble(mode.value))

withFiducialDownscalingOverride(c, downscalingOverride) ==
    Set("withFiducialDownscalingOverride", c, settingsEntry("downscale"),
        downscalingOverride, setDouble(downscalingOverride.value))

withAprilTagOffset(c, offset) ==
    Set("withAprilTagOffset", c, settingsEntry("fiducial3DOffset"), offset,
        translation3dToArray(offset))

withArilTagIdFilter(c, idFilter) ==
    Set("withArilTagIdFilter", c, settingsEntry("fiducialIDFiltersOverride"),
        idFilter, idFilter)

NextSettings ==
    \/ \E mode \in {Member("ForceOff", 1), Member("ForceOn", 3)} :
           withLimelightLEDMode("limelight", mode)
    \/ \E index \in {0, 1} : withPipelineIndex("limelight", index)
    \/ withPriorityTagId("limelight", 7)
    \/ withStreamMode("limelight", Member("PictureInPictureMain", 1))
    \/ \E maxX \in {1, Scale} : withCropWindow("limelight", -Scale, maxX, -1, 1)
    \/ withImuMode("limelight", Member("InternalImu", 2))
    \/ \E yaw \in {5236, 15708} :
           withRobotOrientation("limelight",
                                Orientation3d(Rotation3d(0, 0, yaw),
                                              AngularVelocity3d(2, 4, 6)))
    \/ withFiducialDownscalingOverride("limelight", Member("DoubleDownscale", 2))
    \/ withAprilTagOffset("limelight", Translation3d(1, -3, 5))
    \/ \E idFilter \in {<<3 * Scale>>, <<3 * Scale, 4 * Scale>>} :
           withArilTagIdFilter("limelight", idFilter)
    \/ withCameraToRobot("limelight", Pose3d(3, -5, 7, Rotation3d(0, 5236, 0)))

SpecSettings == InitEncode /\ [][NextSettings]_vars

---------------------------------------------------------------------------
(* C23 *)

\* the bus entry each setter is documented to write
EntryOfSetter(op) ==
    CASE op = "withLimelightLEDMode"            -> "ledMode"
      [] op = "withPipelineIndex"               -> "pipeline"
      [] op = "withPriorityTagId"               -> "priorityid"
      [] op = "withStreamMode"                  -> "stream"
      [] op = "withCropWindow"                  -> "crop"
      [] op = "withImuMode"                     -> "imumode_set"
      [] op = "withRobotOrientation"            -> "robot_orientation_set"
      [] op = "withFiducialDownscalingOverride" -> "fiducial_downscale_set"
      [] op = "withAprilTagOffset"              -> "fiducial_offset_set"
      [] op = "withArilTagIdFilter"             -> "fiducial_id_filters_set"
      [] op = "withCameraToRobot"               -> "camerapose_robotspace_set"

\* C23: a withXXXX call writes its value to exactly one bus entry, the one of
\* its setting, at once; every other entry of every table keeps the value it
\* had, so each entry holds the value of the last call that targeted it; and
\* the call returns the settings object it was made on.
C23_SetterWritesItsEntryOnly ==
    [][LET e == EntryOfSetter(outcome'.op)
           c == outcome'.self
       IN  /\ nt' = [nt EXCEPT ![c][e].value = outcome'.value]
           /\ outcome'.returned = outcome'.self]_vars

\* a chain of calls: the pipeline was set last, to 1, and the LED mode, the crop
\* window and the tag filter still hold what earlier calls of the chain wrote
C23_Witness ==
    /\ outcome.op = "withPipelineIndex"
    /\ nt["limelight"]["pipeline"].value = [double |-> Scale]
    /\ nt["limelight"]["ledMode"].value = [double |-> 3 * Scale]
    /\ nt["limelight"]["crop"].value = <<-Scale, Scale, -1, 1>>
    /\ nt["limelight"]["fiducial_id_filters_set"].value = <<3 * Scale>>

---------------------------------------------------------------------------
(* C24 *)

\* C24: BotPose.<variant>.get(camera) decodes the pose entry of the table of
\* the camera passed in that call, whichever camera earlier calls on the same
\* variant were made with.
C24_GetReadsTableOfItsCamera ==
    result.op = "get"
    => LET polled == heap[poseEstimate[result.variant]]
       IN  /\ polled.poseEntryTable = result.camera
           /\ polled.poseEntryName = EntryOf(result.variant)

---------------------------------------------------------------------------
(* C25 *)

\* C25: for a 6-element array [yaw, yawRate, pitch, pitchRate, roll, rollRate]
\* toOrientation stores yawRate, pitchRate and rollRate as the yaw, pitch and
\* roll angular velocities, and orientation3dToArray(toOrientation(a)) has each
\* rate back at its index 1, 3, 5.
C25_OrientationRatesRoundTrip ==
    /\ (outcome.op = "toOrientation" /\ Len(outcome.arg) = 6)
       => /\ ~outcome.raised
          /\ outcome.value.angularVelocity.yaw = outcome.arg[2]
          /\ outcome.value.angularVelocity.pitch = outcome.arg[4]
          /\ outcome.value.angularVelocity.roll = outcome.arg[6]
    /\ (outcome.op = "orientation3dToArray(toOrientation)" /\ Len(outcome.arg) = 6)
       => /\ ~outcome.raised
          /\ outcome.value[2] = outcome.arg[2]
          /\ outcome.value[4] = outcome.arg[4]
          /\ outcome.value[6] = outcome.arg[6]

---------------------------------------------------------------------------
(* C26 *)

\* C26: whenever the most recent getPoseEstimate call of a PoseEstimate
\* returned None, for an empty array or for one of 1 to 5 elements, its hasData
\* is false and its three ambiguity getters return 1.
C26_AbsentPollClearsHasData ==
    (result.op = "get" /\ result.kind = "None")
    => LET self == heap[poseEstimate[result.variant]]
       IN  /\ self.hasData = FALSE
           /\ getMinTagAmbiguity(self) = Returned(1 * Scale)
           /\ getMaxTagAmbiguity(self) = Returned(1 * Scale)
           /\ getAvgTagAmbiguity(self) = Returned(1 * Scale)

---------------------------------------------------------------------------
(* C27 *)

\* the ambiguities of the first n fiducial records of a pose array, as far as
\* the array holds them: element 11 + 7i + 6 of record i
DecodedAmbiguities(arr, n) ==
    {arr[11 + 7 * k] : k \in {j \in 1 .. n : 11 + 7 * j <= Len(arr)}}

RECURSIVE SumOfDecoded(_, _)
SumOfDecoded(arr, n) ==
    IF n = 0 THEN 0
    ELSE (IF 11 + 7 * n <= Len(arr) THEN arr[11 + 7 * n] ELSE 0)
             + SumOfDecoded(arr, n - 1)

\* C27: when the last poll returned a result with a non-empty fiducial list,
\* getMinTagAmbiguity and getMaxTagAmbiguity return the smallest and the
\* largest ambiguity among the fiducials decoded from that poll's array,
\* getAvgTagAmbiguity returns their sum divided by their count, and
\* min <= avg <= max.
C27_StatisticsOfDecodedFiducials ==
    (result.op = "get" /\ result.kind = "self"
        /\ heap[result.ref].rawFiducials # <<>>)
    => LET self == heap[result.ref]
           n    == Len(self.rawFiducials)
           amb  == DecodedAmbiguities(result.read.value, n)
           min  == getMinTagAmbiguity(self)
           max  == getMaxTagAmbiguity(self)
           avg  == getAvgTagAmbiguity(self)
       IN  /\ ~min.raised /\ ~max.raised /\ ~avg.raised
           /\ min.value \in amb /\ \A a \in amb : min.value <= a
           /\ max.value \in amb /\ \A a \in amb : max.value >= a
           /\ avg.value = RoundDiv(SumOfDecoded(result.read.value, n), n)
           /\ min.value <= avg.value /\ avg.value <= max.value

---------------------------------------------------------------------------
(* SpecLimelight: construction of Limelight objects while the cameras boot *)

\* range(15) in Limelight.isAvailable
Checks == 15

\* a Limelight object once __init__ has returned: limelightName is its only
\* attribute, __limelightData and __settings are annotated without a value
Limelight(name) ==
    [class |-> "Limelight", limelightName |-> name,
     attributes |-> {"limelightName"}]

\* isAvailable giving up at its last check whatever that check finds
isAvailableStepGivingUp(found, k) ==
    IF k + 1 < Checks
    THEN (IF found THEN "True" ELSE "sleep")
    ELSE "False"

\* one round of the loop of isAvailable, k checks having been made: return
\* True, sleep and go on, or leave the loop, raise the alert and return False
isAvailableStep(found, k) ==
    IF found THEN "True"
    ELSE IF k + 1 < Checks THEN "sleep"
    ELSE "False"

\* Limelight.getData
getData(self) ==
    IF "_Limelight__limelightData" \in self.attributes
    THEN Returned(self.limelightData)
    ELSE Raises("AttributeError")

\* Limelight.getSettings
getSettings(self) ==
    IF "_Limelight__settings" \in self.attributes
    THEN Returned(self.settings)
    ELSE Raises("AttributeError")

\* Limelight.getLatestResults: the value of getResults() is dropped
getLatestResults(self, json_result) ==
    IF "_Limelight__limelightData" \notin self.attributes
    THEN Raises("AttributeError")
    ELSE IF getResults(json_result).raised
    THEN getResults(json_result)
    ELSE Returned(None)

InitLimelight ==
    /\ nt = [c \in Cameras |-> [e \in Entries \cup {"getpipe"} |-> NoRead]]
    /\ InitObjects

\* Limelight(name) is called: isAvailable(name) starts
LimelightInit(t, name) ==
    /\ pc[t] = "idle"
    /\ Len(heap) < MaxObjects
    /\ pc' = [pc EXCEPT ![t] = "isAvailable"]
    /\ frame' = [frame EXCEPT ![t] = [NoFrame EXCEPT !.camera = name]]
    /\ UNCHANGED <<nt, poseEstimate, heap, result, outcome>>

\* one check of the "getpipe" key, followed by the sleep or by the rest of
\* isAvailable and of __init__
IsAvailableCheck(t) ==
    LET name  == frame[t].camera
        found == nt[name]["getpipe"] # NoRead
        step  == isAvailableStep(found, frame[t].k)
    IN  /\ pc[t] = "isAvailable"
        /\ frame' = [frame EXCEPT ![t].k = @ + 1]
        /\ IF step = "sleep"
           THEN UNCHANGED <<pc, heap, result>>
           ELSE \E simulation \in BOOLEAN :
                    LET available == step = "True"
                        raised    == ~available /\ ~simulation
                    IN  /\ pc' = [pc EXCEPT ![t] = "idle"]
                        /\ heap' = IF raised THEN heap
                                   ELSE Append(heap, Limelight(name))
                        /\ result' = [op |-> "Limelight", name |-> name,
                                      checks |-> frame[t].k + 1,
                                      available |-> available,
                                      alert |-> ~available,
                                      simulation |-> simulation,
                                      raised |-> raised,
                                      ref |-> IF raised THEN 0 ELSE Len(heap) + 1]
        /\ UNCHANGED <<nt, poseEstimate, outcome>>

CallGetData ==
    \E ref \in DOMAIN heap : Call("getData", <<>>, ref, getData(heap[ref]))

CallGetSettings ==
    \E ref \in DOMAIN heap : Call("getSettings", <<>>, ref, getSettings(heap[ref]))

\* the front camera boots and publishes its pipeline index; the rear camera
\* is not on the network
NextLimelight ==
    \/ Publish("limelight", "getpipe", [value |-> [double |-> 0], time |-> 2000000])
    \/ \E name \in Cameras : LimelightInit(1, name)
    \/ IsAvailableCheck(1)
    \/ CallGetData
    \/ CallGetSettings

SpecLimelight == InitLimelight /\ [][NextLimelight]_vars

---------------------------------------------------------------------------
(* C28 *)

\* C28: isAvailable makes at most 15 checks of the "getpipe" key; the first
\* check that finds the key ends it with True, without another check and
\* without the alert; a check that finds no key is followed by another one
\* unless it was the 15th, which ends it with False and the error alert; the
\* constructor raises RuntimeError exactly when isAvailable gave False and the
\* robot is not in simulation, and yields the object otherwise.
C28_IsAvailableWithin15Checks ==
    [][\A t \in Threads :
           /\ frame'[t].k <= Checks
           /\ (pc[t] = "isAvailable" /\ frame'[t].k = frame[t].k + 1)
              => LET found == nt[frame[t].camera]["getpipe"] # NoRead
                 IN  /\ found
                        => /\ pc'[t] = "idle"
                           /\ result'.op = "Limelight"
                           /\ result'.available /\ ~result'.alert
                           /\ result'.checks = frame'[t].k
                     /\ (~found /\ frame'[t].k < Checks)
                        => /\ pc'[t] = "isAvailable"
                           /\ UNCHANGED <<result, heap>>
                     /\ (~found /\ frame'[t].k = Checks)
                        => /\ pc'[t] = "idle"
                           /\ result'.op = "Limelight"
                           /\ ~result'.available /\ result'.alert
                     /\ pc'[t] = "idle"
                        => /\ result'.raised
                              <=> (~result'.available /\ ~result'.simulation)
                           /\ result'.raised => heap' = heap
                           /\ ~result'.raised
                              => heap' = Append(heap, Limelight(frame[t].camera))]_vars

\* after an earlier construction has yielded an object, one has given up at
\* its 15th check, raised the alert and raised RuntimeError
C28_Witness ==
    /\ result.op = "Limelight"
    /\ ~result.available
    /\ result.alert
    /\ result.checks = Checks
    /\ result.raised
    /\ Len(heap) = 1
    /\ frame[1].k = Checks

---------------------------------------------------------------------------
(* C29 *)

\* C29: on a Limelight object that was constructed, getData() returns its
\* LimelightData and getSettings() returns its LimelightSettings, without
\* raising, in every reachable state.
C29_GettersOfConstructedLimelight ==
    /\ outcome.op = "getData"
       => /\ ~outcome.raised
          /\ outcome.value.class = "LimelightData"
          /\ outcome.value.limelight = heap[outcome.position].limelightName
    /\ outcome.op = "getSettings"
       => /\ ~outcome.raised
          /\ outcome.value.class = "LimelightSettings"
          /\ outcome.value.limelight = heap[outcome.position].limelightName

---------------------------------------------------------------------------
(* SpecLatest: the camera publishes JSON dumps, a caller asks a constructed *)
(* Limelight object for the latest results                                  *)

CallGetLatestResults(c) ==
    Call("getLatestResults", nt[c]["json"].value, 0,
         getLatestResults(Limelight(c), nt[c]["json"].value))

NextLatest ==
    \/ \E c \in Cameras : PublishJson(c)
    \/ \E c \in Cameras : CallGetResults(c)
    \/ \E c \in Cameras : CallGetLatestResults(c)

SpecLatest == InitResults /\ [][NextLatest]_vars

---------------------------------------------------------------------------
(* C30 *)

\* C30: getLatestResults returns what getData().getResults() returns for the
\* same json entry: a LimelightResults object for a parsable envelope, None
\* only when getResults gives None.
C30_LatestResultsAreGetResults ==
    outcome.op = "getLatestResults"
    => /\ ~outcome.raised
       /\ outcome.value = getResults(outcome.arg).value

=============================================================================
